---- MODULE Spec2Model ----
(***************************************************************************)
(* A model of aiomarketstack's client (src/aiomarketstack/__init__.py):    *)
(* the scoped transport session (__aenter__ / __aexit__ / _session), the   *)
(* single-date and ranged end-of-day queries (get_eod, get_eod_range,      *)
(* _get_eod_range_helper) and the response classifier (_handle_if_error).  *)
(*                                                                         *)
(* A query is modelled in the steps between its suspension points: the     *)
(* call runs up to its first sess.get (Call), and every response resumes   *)
(* it up to the next sess.get or to its end (Respond).                     *)
(***************************************************************************)
EXTENDS Integers, Sequences, FiniteSets, Bags, TLC

VARIABLES
    plan,            \* self.plan
    variant,         \* which public class built the client: "http" | "https"
    base_url,        \* self.base_url
    warned,          \* warnings.warn was called by the constructor
    client_session,  \* self._client_session: 0 is None, n >= 1 the n-th session
    sessions,        \* the aiohttp.ClientSession objects made so far
    depth,           \* `async with client` scopes entered and not yet exited
    calls,           \* per task: the query call it is running or ran last
    suspended,       \* bag of the sessions that the page generators left at
                     \* their yield hold, one copy for each generator
    remote_total,    \* rows the remote holds for the query (paging remote only)
    cl_resp,         \* classifier on its own: the (status, body) handed to it
    cl_out,          \* classifier on its own: what _handle_if_error did
    rt_date,         \* date round trip: the date d handed to _format_date
    rt_row,          \* date round trip: <<row>> once a row carries the string
    rt_eod           \* date round trip: <<record>> once _deserialize_eod ran

vars == <<plan, variant, base_url, warned, client_session, sessions, depth,
          calls, suspended, remote_total, cl_resp, cl_out, rt_date, rt_row,
          rt_eod>>

(***************************************************************************)
(* Bounds of the model.                                                    *)
(***************************************************************************)
MaxSessions == 2      \* __aenter__ runs at most this often in a behaviour
MaxRequestsArg == 2   \* largest max_requests a caller passes explicitly
MaxData == 2          \* longest data list of a response body
MaxRows == 3          \* most rows the remote serves to one ranged call
MaxTasks == 2         \* most query calls a caller keeps in flight together
MaxSuspended == 2     \* most page generators left at their yield, not finalized

(***************************************************************************)
(* Program constants.                                                      *)
(***************************************************************************)
FREE == 0
BASIC == 1
PROFESSIONAL == 2
BUSINESS == 3
MarketstackPlan == {FREE, BASIC, PROFESSIONAL, BUSINESS}

HTTP_BASE_URL == "http://api.marketstack.com/v1/eod"
HTTPS_BASE_URL == "https://api.marketstack.com/v1/eod"

http_code_ok == 200
DefaultMaxRequests == 10
DefaultPlan == BASIC

None == "None"

(***************************************************************************)
(* Strings that the code takes apart or builds are sequences of            *)
(* one-character strings.                                                  *)
(***************************************************************************)
Digits == <<"0", "1", "2", "3", "4", "5", "6", "7", "8", "9">>

DigitChar(n) == Digits[n + 1]

DigitChars == {Digits[i] : i \in 1..10}

IsDigit(c) == c \in DigitChars

DigitVal(c) == (CHOOSE i \in 1..10 : Digits[i] = c) - 1

RECURSIVE Decimal(_)
\* str(n) for n >= 0
Decimal(n) == IF n < 10 THEN <<DigitChar(n)>>
              ELSE Decimal(n \div 10) \o <<DigitChar(n % 10)>>

\* C's %02d for 0 <= n
Pad2(n) == IF n < 10 THEN <<"0">> \o Decimal(n) ELSE Decimal(n)

\* date.strftime("%Y-%m-%d"): the C library's %Y prints the year without
\* padding, %m and %d are two digits wide.
format_date(d) == Decimal(d.year) \o <<"-">> \o Pad2(d.month) \o <<"-">> \o Pad2(d.day)

IsLeap(y) == (y % 4 = 0) /\ ((y % 100 # 0) \/ (y % 400 = 0))

DaysInMonth(y, m) == IF m = 2 THEN (IF IsLeap(y) THEN 29 ELSE 28)
                     ELSE IF m \in {4, 6, 9, 11} THEN 30 ELSE 31

RECURSIVE ParseDecimal(_)
\* int(s) of a string of digits
ParseDecimal(s) == IF Len(s) = 0 THEN 0
                   ELSE 10 * ParseDecimal(SubSeq(s, 1, Len(s) - 1))
                        + DigitVal(s[Len(s)])

(***************************************************************************)
(* datetime.fromisoformat(s).date(), as the interpreter's datetime module  *)
(* computes it.  The parser does not read the characters of s but the      *)
(* bytes of its UTF-8 encoding, closed by a NUL byte.  A byte below 128 is *)
(* written as the ASCII character it encodes, the NUL byte as "", and the  *)
(* bytes of a longer encoding by their kind: "lead2", "lead3" and "lead4"  *)
(* open an encoding of two, three and four bytes, "cont" continues one.  A *)
(* NUL character inside s is the element "" of the sequence.  Positions    *)
(* count from 1.  The characters are those that a string of a module can   *)
(* hold: not the grave accent, not a lone surrogate, and beyond U+00FF     *)
(* only the characters whose UTF-16 units end in a byte of 128 or more.    *)
(***************************************************************************)
ValueError == [raised |-> "ValueError"]

NUL == ""

\* the characters that UTF-8 encodes in one byte
Ascii ==
    {NUL, "\t", "\n", "\f", "\r", " ", "!", "\"", "#", "$", "%", "&",
     "'", "(", ")", "*", "+", ",", "-", ".", "/", "0", "1", "2",
     "3", "4", "5", "6", "7", "8", "9", ":", ";", "<", "=", ">",
     "?", "@", "A", "B", "C", "D", "E", "F", "G", "H", "I", "J",
     "K", "L", "M", "N", "O", "P", "Q", "R", "S", "T", "U", "V",
     "W", "X", "Y", "Z", "[", "\\", "]", "^", "_", "a", "b",
     "c", "d", "e", "f", "g", "h", "i", "j", "k", "l", "m", "n",
     "o", "p", "q", "r", "s", "t", "u", "v", "w", "x", "y", "z",
     "{", "|", "}", "~"}
    \cup {"", "", "", "", "", "", "", "", "", "", "", "",
          "", "", "", "", "", "", "", "", "", "", "", "",
          "", "", "", ""}

\* the characters that UTF-8 encodes in two bytes, U+0080 to U+07FF, as far
\* as a string of a module can hold them
TwoByteChars ==
    {"", "", "", "", "", "", "", "", "", "", "", "", "", "", "", "", "",
     "", "", "", "", "", "", "", "", "", "", "", "", "", "", "", " ",
     "¡", "¢", "£", "¤", "¥", "¦", "§", "¨", "©", "ª", "«", "¬", "­", "®", "¯", "°",
     "±", "²", "³", "´", "µ", "¶", "·", "¸", "¹", "º", "»", "¼", "½", "¾", "¿", "À",
     "Á", "Â", "Ã", "Ä", "Å", "Æ", "Ç", "È", "É", "Ê", "Ë", "Ì", "Í", "Î", "Ï", "Ð",
     "Ñ", "Ò", "Ó", "Ô", "Õ", "Ö", "×", "Ø", "Ù", "Ú", "Û", "Ü", "Ý", "Þ", "ß", "à",
     "á", "â", "ã", "ä", "å", "æ", "ç", "è", "é", "ê", "ë", "ì", "í", "î", "ï", "ð",
     "ñ", "ò", "ó", "ô", "õ", "ö", "÷", "ø", "ù", "ú", "û", "ü", "ý", "þ", "ÿ", "ƀ",
     "Ɓ", "Ƃ", "ƃ", "Ƅ", "ƅ", "Ɔ", "Ƈ", "ƈ", "Ɖ", "Ɗ", "Ƌ", "ƌ", "ƍ", "Ǝ", "Ə", "Ɛ",
     "Ƒ", "ƒ", "Ɠ", "Ɣ", "ƕ", "Ɩ", "Ɨ", "Ƙ", "ƙ", "ƚ", "ƛ", "Ɯ", "Ɲ", "ƞ", "Ɵ", "Ơ",
     "ơ", "Ƣ", "ƣ", "Ƥ", "ƥ", "Ʀ", "Ƨ", "ƨ", "Ʃ", "ƪ", "ƫ", "Ƭ", "ƭ", "Ʈ", "Ư", "ư",
     "Ʊ", "Ʋ", "Ƴ", "ƴ", "Ƶ", "ƶ", "Ʒ", "Ƹ", "ƹ", "ƺ", "ƻ", "Ƽ", "ƽ", "ƾ", "ƿ", "ǀ",
     "ǁ", "ǂ", "ǃ", "Ǆ", "ǅ", "ǆ", "Ǉ", "ǈ", "ǉ", "Ǌ", "ǋ", "ǌ", "Ǎ", "ǎ", "Ǐ", "ǐ",
     "Ǒ", "ǒ", "Ǔ", "ǔ", "Ǖ", "ǖ", "Ǘ", "ǘ", "Ǚ", "ǚ", "Ǜ", "ǜ", "ǝ", "Ǟ", "ǟ", "Ǡ",
     "ǡ", "Ǣ", "ǣ", "Ǥ", "ǥ", "Ǧ", "ǧ", "Ǩ", "ǩ", "Ǫ", "ǫ", "Ǭ", "ǭ", "Ǯ", "ǯ", "ǰ",
     "Ǳ", "ǲ", "ǳ", "Ǵ", "ǵ", "Ƕ", "Ƿ", "Ǹ", "ǹ", "Ǻ", "ǻ", "Ǽ", "ǽ", "Ǿ", "ǿ", "ʀ",
     "ʁ", "ʂ", "ʃ", "ʄ", "ʅ", "ʆ", "ʇ", "ʈ", "ʉ", "ʊ", "ʋ", "ʌ", "ʍ", "ʎ", "ʏ", "ʐ",
     "ʑ", "ʒ", "ʓ", "ʔ", "ʕ", "ʖ", "ʗ", "ʘ", "ʙ", "ʚ", "ʛ", "ʜ", "ʝ", "ʞ", "ʟ", "ʠ",
     "ʡ", "ʢ", "ʣ", "ʤ", "ʥ", "ʦ", "ʧ", "ʨ", "ʩ", "ʪ", "ʫ", "ʬ", "ʭ", "ʮ", "ʯ", "ʰ",
     "ʱ", "ʲ", "ʳ", "ʴ", "ʵ", "ʶ", "ʷ", "ʸ", "ʹ", "ʺ", "ʻ", "ʼ", "ʽ", "ʾ", "ʿ", "ˀ",
     "ˁ", "˂", "˃", "˄", "˅", "ˆ", "ˇ", "ˈ", "ˉ", "ˊ", "ˋ", "ˌ", "ˍ", "ˎ", "ˏ", "ː",
     "ˑ", "˒", "˓", "˔", "˕", "˖", "˗", "˘", "˙", "˚", "˛", "˜", "˝", "˞", "˟", "ˠ",
     "ˡ", "ˢ", "ˣ", "ˤ", "˥", "˦", "˧", "˨", "˩", "˪", "˫", "ˬ", "˭", "ˮ", "˯", "˰",
     "˱", "˲", "˳", "˴", "˵", "˶", "˷", "˸", "˹", "˺", "˻", "˼", "˽", "˾", "˿", "΀",
     "΁", "΂", "΃", "΄", "΅", "Ά", "·", "Έ", "Ή", "Ί", "΋", "Ό", "΍", "Ύ", "Ώ", "ΐ",
     "Α", "Β", "Γ", "Δ", "Ε", "Ζ", "Η", "Θ", "Ι", "Κ", "Λ", "Μ", "Ν", "Ξ", "Ο", "Π",
     "Ρ", "΢", "Σ", "Τ", "Υ", "Φ", "Χ", "Ψ", "Ω", "Ϊ", "Ϋ", "ά", "έ", "ή", "ί", "ΰ",
     "α", "β", "γ", "δ", "ε", "ζ", "η", "θ", "ι", "κ", "λ", "μ", "ν", "ξ", "ο", "π",
     "ρ", "ς", "σ", "τ", "υ", "φ", "χ", "ψ", "ω", "ϊ", "ϋ", "ό", "ύ", "ώ", "Ϗ", "ϐ",
     "ϑ", "ϒ", "ϓ", "ϔ", "ϕ", "ϖ", "ϗ", "Ϙ", "ϙ", "Ϛ", "ϛ", "Ϝ", "ϝ", "Ϟ", "ϟ", "Ϡ",
     "ϡ", "Ϣ", "ϣ", "Ϥ", "ϥ", "Ϧ", "ϧ", "Ϩ", "ϩ", "Ϫ", "ϫ", "Ϭ", "ϭ", "Ϯ", "ϯ", "ϰ",
     "ϱ", "ϲ", "ϳ", "ϴ", "ϵ", "϶", "Ϸ", "ϸ", "Ϲ", "Ϻ", "ϻ", "ϼ", "Ͻ", "Ͼ", "Ͽ", "Ҁ",
     "ҁ", "҂", "҃", "҄", "҅", "҆", "҇", "҈", "҉", "Ҋ", "ҋ", "Ҍ", "ҍ", "Ҏ", "ҏ", "Ґ",
     "ґ", "Ғ", "ғ", "Ҕ", "ҕ", "Җ", "җ", "Ҙ", "ҙ", "Қ", "қ", "Ҝ", "ҝ", "Ҟ", "ҟ", "Ҡ",
     "ҡ", "Ң", "ң", "Ҥ", "ҥ", "Ҧ", "ҧ", "Ҩ", "ҩ", "Ҫ", "ҫ", "Ҭ", "ҭ", "Ү", "ү", "Ұ",
     "ұ", "Ҳ", "ҳ", "Ҵ", "ҵ", "Ҷ", "ҷ", "Ҹ", "ҹ", "Һ", "һ", "Ҽ", "ҽ", "Ҿ", "ҿ", "Ӏ",
     "Ӂ", "ӂ", "Ӄ", "ӄ", "Ӆ", "ӆ", "Ӈ", "ӈ", "Ӊ", "ӊ", "Ӌ", "ӌ", "Ӎ", "ӎ", "ӏ", "Ӑ",
     "ӑ", "Ӓ", "ӓ", "Ӕ", "ӕ", "Ӗ", "ӗ", "Ә", "ә", "Ӛ", "ӛ", "Ӝ", "ӝ", "Ӟ", "ӟ", "Ӡ",
     "ӡ", "Ӣ", "ӣ", "Ӥ", "ӥ", "Ӧ", "ӧ", "Ө", "ө", "Ӫ", "ӫ", "Ӭ", "ӭ", "Ӯ", "ӯ", "Ӱ",
     "ӱ", "Ӳ", "ӳ", "Ӵ", "ӵ", "Ӷ", "ӷ", "Ӹ", "ӹ", "Ӻ", "ӻ", "Ӽ", "ӽ", "Ӿ", "ӿ", "ր",
     "ց", "ւ", "փ", "ք", "օ", "ֆ", "և", "ֈ", "։", "֊", "֋", "֌", "֍", "֎", "֏", "֐",
     "֑", "֒", "֓", "֔", "֕", "֖", "֗", "֘", "֙", "֚", "֛", "֜", "֝", "֞", "֟", "֠",
     "֡", "֢", "֣", "֤", "֥", "֦", "֧", "֨", "֩", "֪", "֫", "֬", "֭", "֮", "֯", "ְ",
     "ֱ", "ֲ", "ֳ", "ִ", "ֵ", "ֶ", "ַ", "ָ", "ֹ", "ֺ", "ֻ", "ּ", "ֽ", "־", "ֿ", "׀",
     "ׁ", "ׂ", "׃", "ׄ", "ׅ", "׆", "ׇ", "׈", "׉", "׊", "׋", "׌", "׍", "׎", "׏", "א",
     "ב", "ג", "ד", "ה", "ו", "ז", "ח", "ט", "י", "ך", "כ", "ל", "ם", "מ", "ן", "נ",
     "ס", "ע", "ף", "פ", "ץ", "צ", "ק", "ר", "ש", "ת", "׫", "׬", "׭", "׮", "ׯ", "װ",
     "ױ", "ײ", "׳", "״", "׵", "׶", "׷", "׸", "׹", "׺", "׻", "׼", "׽", "׾", "׿", "ڀ",
     "ځ", "ڂ", "ڃ", "ڄ", "څ", "چ", "ڇ", "ڈ", "ډ", "ڊ", "ڋ", "ڌ", "ڍ", "ڎ", "ڏ", "ڐ",
     "ڑ", "ڒ", "ړ", "ڔ", "ڕ", "ږ", "ڗ", "ژ", "ڙ", "ښ", "ڛ", "ڜ", "ڝ", "ڞ", "ڟ", "ڠ",
     "ڡ", "ڢ", "ڣ", "ڤ", "ڥ", "ڦ", "ڧ", "ڨ", "ک", "ڪ", "ګ", "ڬ", "ڭ", "ڮ", "گ", "ڰ",
     "ڱ", "ڲ", "ڳ", "ڴ", "ڵ", "ڶ", "ڷ", "ڸ", "ڹ", "ں", "ڻ", "ڼ", "ڽ", "ھ", "ڿ", "ۀ",
     "ہ", "ۂ", "ۃ", "ۄ", "ۅ", "ۆ", "ۇ", "ۈ", "ۉ", "ۊ", "ۋ", "ی", "ۍ", "ێ", "ۏ", "ې",
     "ۑ", "ے", "ۓ", "۔", "ە", "ۖ", "ۗ", "ۘ", "ۙ", "ۚ", "ۛ", "ۜ", "۝", "۞", "۟", "۠",
     "ۡ", "ۢ", "ۣ", "ۤ", "ۥ", "ۦ", "ۧ", "ۨ", "۩", "۪", "۫", "۬", "ۭ", "ۮ", "ۯ", "۰",
     "۱", "۲", "۳", "۴", "۵", "۶", "۷", "۸", "۹", "ۺ", "ۻ", "ۼ", "۽", "۾", "ۿ", "ހ",
     "ށ", "ނ", "ރ", "ބ", "ޅ", "ކ", "އ", "ވ", "މ", "ފ", "ދ", "ތ", "ލ", "ގ", "ޏ", "ސ",
     "ޑ", "ޒ", "ޓ", "ޔ", "ޕ", "ޖ", "ޗ", "ޘ", "ޙ", "ޚ", "ޛ", "ޜ", "ޝ", "ޞ", "ޟ", "ޠ",
     "ޡ", "ޢ", "ޣ", "ޤ", "ޥ", "ަ", "ާ", "ި", "ީ", "ު", "ޫ", "ެ", "ޭ", "ޮ", "ޯ", "ް",
     "ޱ", "޲", "޳", "޴", "޵", "޶", "޷", "޸", "޹", "޺", "޻", "޼", "޽", "޾", "޿", "߀",
     "߁", "߂", "߃", "߄", "߅", "߆", "߇", "߈", "߉", "ߊ", "ߋ", "ߌ", "ߍ", "ߎ", "ߏ", "ߐ",
     "ߑ", "ߒ", "ߓ", "ߔ", "ߕ", "ߖ", "ߗ", "ߘ", "ߙ", "ߚ", "ߛ", "ߜ", "ߝ", "ߞ", "ߟ", "ߠ",
     "ߡ", "ߢ", "ߣ", "ߤ", "ߥ", "ߦ", "ߧ", "ߨ", "ߩ", "ߪ", "߫", "߬", "߭", "߮", "߯", "߰",
     "߱", "߲", "߳", "ߴ", "ߵ", "߶", "߷", "߸", "߹", "ߺ", "߻", "߼", "߽", "߾", "߿"}

\* the bytes of the character c; a character beyond U+FFFF is a string of
\* two UTF-16 units and takes four bytes
Utf8Char(c) == IF c \in Ascii THEN <<c>>
               ELSE IF c \in TwoByteChars THEN <<"lead2", "cont">>
               ELSE IF Len(c) = 2 THEN <<"lead4", "cont", "cont", "cont">>
               ELSE <<"lead3", "cont", "cont">>

RECURSIVE Utf8(_)
\* the bytes of the string s: s itself when all its characters are ASCII
Utf8(s) == IF \A i \in 1..Len(s) : s[i] \in Ascii THEN s
           ELSE Utf8Char(Head(s)) \o Utf8(Tail(s))

\* the byte at position i; the terminator stands past the end
At(s, i) == IF i \in 1..Len(s) THEN s[i] ELSE NUL

\* n digits stand at s[p..p+n-1]
DigitsAt(s, p, n) == \A k \in 0..(n - 1) : IsDigit(At(s, p + k))

\* the number that the n digits at s[p..] spell
NumberAt(s, p, n) == ParseDecimal(SubSeq(s, p, p + n - 1))

\* days before January 1st of year y, and before the first of month m
DaysBeforeYear(y) ==
    (y - 1) * 365 + ((y - 1) \div 4) - ((y - 1) \div 100) + ((y - 1) \div 400)

RECURSIVE DaysBeforeMonth(_, _)
DaysBeforeMonth(y, m) ==
    IF m = 1 THEN 0 ELSE DaysBeforeMonth(y, m - 1) + DaysInMonth(y, m - 1)

\* the date of the day with ordinal n (0001-01-01 is day 1), n being a day
\* of the year y or of a year next to it
OrdinalToDate(n, y) ==
    LET yy == CHOOSE c \in {y - 1, y, y + 1} :
                  DaysBeforeYear(c) < n /\ n <= DaysBeforeYear(c + 1)
        doy == n - DaysBeforeYear(yy)
        mm == CHOOSE c \in 1..12 :
                  DaysBeforeMonth(yy, c) < doy
                  /\ doy <= DaysBeforeMonth(yy, c) + DaysInMonth(yy, c)
    IN  [year |-> yy, month |-> mm, day |-> doy - DaysBeforeMonth(yy, mm)]

\* the ordinal of the Monday of ISO week 1 of year y
IsoWeek1Monday(y) ==
    LET firstday == DaysBeforeYear(y) + 1
        firstweekday == (firstday + 6) % 7
        week1monday == firstday - firstweekday
    IN  IF firstweekday > 3 THEN week1monday + 7 ELSE week1monday

\* the calendar date of day d of ISO week w of year y
IsoWeekToDate(y, w, d) ==
    LET first_weekday == (DaysBeforeYear(y) + 1) % 7
        week_ok == \/ w \in 1..52
                   \/ /\ w = 53
                      /\ \/ first_weekday = 4
                         \/ first_weekday = 3 /\ IsLeap(y)
    IN  IF y \in 1..9999 /\ week_ok /\ d \in 1..7
        THEN OrdinalToDate(IsoWeek1Monday(y) + (w - 1) * 7 + (d - 1), y)
        ELSE ValueError

RECURSIVE DigitsEnd(_, _)
\* the first position from p on that holds no digit
DigitsEnd(s, p) == IF IsDigit(At(s, p)) THEN DigitsEnd(s, p + 1) ELSE p

\* the number of characters of the date part of s (Len(s) >= 7), or -1
FindSeparator(s) ==
    IF Len(s) = 7 THEN 7
    ELSE IF s[5] = "-"
    THEN IF s[6] = "W"
         THEN IF Len(s) > 8 /\ s[9] = "-"
              THEN IF Len(s) = 9 THEN -1
                   ELSE IF Len(s) > 10 /\ IsDigit(s[11]) THEN 8
                   ELSE 10
              ELSE 8
         ELSE 10
    ELSE IF s[5] = "W"
    THEN LET idx == DigitsEnd(s, 8) - 1
         IN  IF idx < 9 THEN idx
             ELSE IF idx % 2 = 0 THEN 7 ELSE 8
    ELSE 8

\* the date part of s, n characters long: YYYY-MM-DD, YYYYMMDD, YYYY-Www,
\* YYYY-Www-D, YYYYWww or YYYYWwwD
ParseIsoDate(s, n) ==
    IF ~DigitsAt(s, 1, 4) THEN ValueError
    ELSE LET y == NumberAt(s, 1, 4)
             has_sep == At(s, 5) = "-"
             p == IF has_sep THEN 6 ELSE 5
         IN  IF At(s, p) = "W"
             THEN IF ~DigitsAt(s, p + 1, 2) THEN ValueError
                  ELSE LET w == NumberAt(s, p + 1, 2)
                           q == p + 3
                           r == IF has_sep THEN q + 1 ELSE q
                       IN  IF q - 1 < n
                           THEN IF has_sep /\ At(s, q) # "-" THEN ValueError
                                ELSE IF ~DigitsAt(s, r, 1) THEN ValueError
                                ELSE IsoWeekToDate(y, w, NumberAt(s, r, 1))
                           ELSE IsoWeekToDate(y, w, 1)
             ELSE IF ~DigitsAt(s, p, 2) THEN ValueError
             ELSE LET q == p + 2
                      r == IF has_sep THEN q + 1 ELSE q
                  IN  IF has_sep /\ At(s, q) # "-" THEN ValueError
                      ELSE IF ~DigitsAt(s, r, 2) THEN ValueError
                      ELSE [year |-> y, month |-> NumberAt(s, p, 2),
                            day |-> NumberAt(s, r, 2)]

\* what the parser of HH[:MM[:SS[.ffffff]]] gives: rv is -1 for a
\* malformed string, 1 when characters are left over, else 0
HmsFailed == [rv |-> -1, comps |-> <<0, 0, 0>>]

\* the fraction of a second in s[p..e-1]
ParseFraction(s, p, e, comps) ==
    LET to_parse == IF e - p >= 6 THEN 6 ELSE e - p
    IN  IF ~DigitsAt(s, p, to_parse) THEN HmsFailed
        ELSE [rv |-> IF At(s, DigitsEnd(s, p + to_parse)) # NUL THEN 1 ELSE 0,
              comps |-> comps]

RECURSIVE ParseHms(_, _, _, _, _, _)
\* component i (0 hours, 1 minutes, 2 seconds) and what follows, from s[p],
\* the field ending before position e
ParseHms(s, p, e, i, has_sep0, comps0) ==
    IF i = 3 THEN ParseFraction(s, p, e, comps0)
    ELSE IF ~DigitsAt(s, p, 2) THEN HmsFailed
    ELSE LET comps == [comps0 EXCEPT ![i + 1] = NumberAt(s, p, 2)]
             c == At(s, p + 2)
             q == p + 3
             has_sep == IF i = 0 THEN c = ":" ELSE has_sep0
         IN  IF q >= e THEN [rv |-> IF c # NUL THEN 1 ELSE 0, comps |-> comps]
             ELSE IF has_sep /\ c = ":" THEN ParseHms(s, q, e, i + 1, has_sep, comps)
             ELSE IF c \in {".", ","} THEN ParseFraction(s, q, e, comps)
             ELSE IF ~has_sep THEN ParseHms(s, q - 1, e, i + 1, has_sep, comps)
             ELSE HmsFailed

RECURSIVE TzPosition(_, _, _)
\* the position of the first Z, + or - from z on; e or more when none
TzPosition(s, z, e) ==
    IF At(s, z) \in {"Z", "+", "-"} THEN z
    ELSE IF z + 1 < e THEN TzPosition(s, z + 1, e)
    ELSE z + 1

\* is s[p..] a time of day with an optional UTC offset
IsIsoTime(s, p) ==
    LET e == Len(s) + 1
        z == TzPosition(s, p, e)
        t == ParseHms(s, p, z, 0, TRUE, <<0, 0, 0>>)
        time_ok == t.comps[1] < 24 /\ t.comps[2] < 60 /\ t.comps[3] < 60
        o == ParseHms(s, z + 1, e, 0, TRUE, <<0, 0, 0>>)
    IN  IF t.rv < 0 THEN FALSE
        ELSE IF z >= e THEN t.rv = 0 /\ time_ok
        ELSE IF At(s, z) = "Z" THEN At(s, z + 1) = NUL /\ time_ok
        ELSE /\ o.rv = 0
             /\ time_ok
             /\ o.comps[1] * 3600 + o.comps[2] * 60 + o.comps[3] < 86400

\* how far the parser steps over the separator whose first byte is c: one
\* byte for an ASCII character, else the length that the lead byte tells
SeparatorWidth(c) == IF c = "lead4" THEN 4
                     ELSE IF c = "lead3" THEN 3
                     ELSE IF c \in {"lead2", "cont"} THEN 2
                     ELSE 1

\* the calendar date that the parser reads from the bytes b, the time of
\* day dropped, or ValueError when they spell no ISO 8601 date or date and
\* time
ParseIsoBytes(b) ==
    IF Len(b) < 7 THEN ValueError
    ELSE LET n == FindSeparator(b)
             d == ParseIsoDate(b, n)
             p == n + 1 + SeparatorWidth(At(b, n + 1))
         IN  IF n < 0 THEN ValueError
             ELSE IF d = ValueError THEN ValueError
             ELSE IF Len(b) > n /\ ~IsIsoTime(b, p) THEN ValueError
             ELSE IF /\ d.year \in 1..9999
                     /\ d.month \in 1..12
                     /\ d.day >= 1 /\ d.day <= DaysInMonth(d.year, d.month)
             THEN d
             ELSE ValueError

\* datetime.fromisoformat(s).date(): s is encoded, once, and its bytes are
\* parsed
fromisoformat_date(s) == CHOOSE d \in {ParseIsoBytes(b) : b \in {Utf8(s)}} : TRUE

\* _deserialize_eod: every field copied, the date parsed; a date of
\* ValueError stands for the call raising it
deserialize_eod(raw_eod) ==
    [open |-> raw_eod.open, high |-> raw_eod.high, low |-> raw_eod.low,
     close |-> raw_eod.close, volume |-> raw_eod.volume,
     split_factor |-> raw_eod.split_factor, dividend |-> raw_eod.dividend,
     symbol |-> raw_eod.symbol, exchange |-> raw_eod.exchange,
     date |-> fromisoformat_date(raw_eod.date)]

(***************************************************************************)
(* Response bodies.  A body is a record; the key "error" is present only   *)
(* when the remote attached an error envelope.                             *)
(***************************************************************************)
Date1 == <<"2", "0", "2", "3", "-", "0", "7", "-", "1", "7">>
Date2 == <<"2", "0", "2", "3", "-", "0", "7", "-", "1", "8",
           "T", "0", "0", ":", "0", "0", ":", "0", "0", "+", "0", "0", "0", "0">>

Row1 == [open |-> 134, high |-> 135, low |-> 133, close |-> 133, volume |-> 7,
         split_factor |-> 1, dividend |-> 0, symbol |-> "AMZN",
         exchange |-> "XNAS", date |-> Date1]
Row2 == [open |-> 345, high |-> 346, low |-> 342, close |-> 345, volume |-> 9,
         split_factor |-> 2, dividend |-> 0, symbol |-> "MSFT",
         exchange |-> "XNAS", date |-> Date2]

\* a row whose date is no day of the calendar
DateBad == <<"2", "0", "2", "3", "-", "0", "2", "-", "3", "0">>
RowBad == [Row1 EXCEPT !.date = DateBad]

Pagination(l, o, c, t) == [limit |-> l, offset |-> o, count |-> c, total |-> t]

\* a body without / with an error envelope
Body(p, data) == [pagination |-> p, data |-> data]
ErrBody(p, data, code, message) ==
    [pagination |-> p, data |-> data,
     error |-> [code |-> code, message |-> message]]

\* dict.get(key, default)
DictGet(d, key, default) == IF key \in DOMAIN d THEN d[key] ELSE default

(***************************************************************************)
(* _handle_if_error.  The table err_map, as written in the source: a       *)
(* status maps to a dict from a key to the exception class it raises.      *)
(***************************************************************************)
\* the table with the 403 default taken from the 401 entry
err_map_forbidden_default ==
    (401 :> ( "invalid_access_key" :> "InvalidAccessKeyError"
           @@ "missing_access_key" :> "MissingAccessKeyError"
           @@ "inactive_user" :> "InactiveUserError"
           @@ "default" :> "UnauthorizedError" ))
 @@ (403 :> ( "https_access_restricted" :> "HttpsAccessRestrictedError"
           @@ "function_access_restricted" :> "FunctionAccessRestrictedError"
           @@ "default" :> "UnauthorizedError" ))
 @@ (404 :> ( "invalid_api_function" :> "InvalidApiFunctionError"
           @@ "404_not_found" :> "ResourceNotFoundError"
           @@ "default" :> "NotFoundError" ))
 @@ (429 :> ( "usage_limit_reached" :> "UsageLimitReachedError"
           @@ "rate_limit_reached" :> "RateLimitReachedError"
           @@ "default" :> "TooManyRequestsError" ))
 @@ (500 :> ( "default" :> "InternalErrorError" ))

err_map ==
    (401 :> ( "invalid_access_key" :> "InvalidAccessKeyError"
           @@ "missing_access_key" :> "MissingAccessKeyError"
           @@ "inactive_user" :> "InactiveUserError"
           @@ "default" :> "UnauthorizedError" ))
 @@ (403 :> ( "https_access_restricted" :> "HttpsAccessRestrictedError"
           @@ "function_access_restricted" :> "FunctionAccessRestrictedError"
           @@ "default" :> "ForbiddenError" ))
 @@ (404 :> ( "invalid_api_function" :> "InvalidApiFunctionError"
           @@ "404_not_found" :> "ResourceNotFoundError"
           @@ "default" :> "NotFoundError" ))
 @@ (429 :> ( "usage_limit_reached" :> "UsageLimitReachedError"
           @@ "rate_limit_reached" :> "RateLimitReachedError"
           @@ "default" :> "TooManyRequestsError" ))
 @@ (500 :> ( "default" :> "InternalErrorError" ))

\* err_map["default"]["default"]
err_map_default == "UnhandledResponseError"

\* body.get("error")
err_response(body) == IF "error" \in DOMAIN body THEN body.error ELSE None

\* _handle_if_error accepting every 2xx status as success
handle_if_error_2xx(status, body) ==
    IF status \in 200..299 THEN "ok"
    ELSE IF status \notin DOMAIN err_map THEN err_map_default
    ELSE IF "error" \notin DOMAIN body THEN "RuntimeError"
    ELSE DictGet(err_map[status], err_response(body).message,
                 err_map[status]["default"])

\* _handle_if_error looking for the envelope before it looks up the status
handle_if_error_envelope_first(status, body) ==
    IF status = http_code_ok THEN "ok"
    ELSE IF "error" \notin DOMAIN body THEN "RuntimeError"
    ELSE IF status \notin DOMAIN err_map THEN err_map_default
    ELSE DictGet(err_map[status], err_response(body).message,
                 err_map[status]["default"])

\* _handle_if_error raising the status's default kind when the body has no
\* error envelope
handle_if_error_default_kind(status, body) ==
    IF status = http_code_ok THEN "ok"
    ELSE IF status \notin DOMAIN err_map THEN err_map_default
    ELSE IF "error" \notin DOMAIN body THEN err_map[status]["default"]
    ELSE DictGet(err_map[status], err_response(body).message,
                 err_map[status]["default"])

\* What _handle_if_error(resp, body, log) does: "ok" when it returns, else
\* the class of the exception it raises.
handle_if_error(status, body) ==
    IF status = http_code_ok THEN "ok"
    ELSE IF status \notin DOMAIN err_map THEN err_map_default
    ELSE IF "error" \notin DOMAIN body THEN "RuntimeError"
    ELSE DictGet(err_map[status], err_response(body).message,
                 err_map[status]["default"])

(***************************************************************************)
(* exceptions.py: the class hierarchy, as the direct base of every class.  *)
(***************************************************************************)
BaseOf ==
       "ResponseError" :> "Exception"
    @@ "UnhandledResponseError" :> "ResponseError"
    @@ "UnauthorizedError" :> "ResponseError"
    @@ "InvalidAccessKeyError" :> "UnauthorizedError"
    @@ "MissingAccessKeyError" :> "UnauthorizedError"
    @@ "InactiveUserError" :> "UnauthorizedError"
    @@ "ForbiddenError" :> "ResponseError"
    @@ "HttpsAccessRestrictedError" :> "ForbiddenError"
    @@ "FunctionAccessRestrictedError" :> "ForbiddenError"
    @@ "NotFoundError" :> "ResponseError"
    @@ "InvalidApiFunctionError" :> "NotFoundError"
    @@ "ResourceNotFoundError" :> "NotFoundError"
    @@ "TooManyRequestsError" :> "ResponseError"
    @@ "UsageLimitReachedError" :> "TooManyRequestsError"
    @@ "RateLimitReachedError" :> "TooManyRequestsError"
    @@ "InternalErrorError" :> "ResponseError"
    @@ "RuntimeError" :> "Exception"

RECURSIVE IsInstance(_, _)
\* isinstance(an exception of class cls, base)
IsInstance(cls, base) ==
    \/ cls = base
    \/ /\ cls \in DOMAIN BaseOf
       /\ IsInstance(BaseOf[cls], base)

(***************************************************************************)
(* The client object and its transport session.                            *)
(***************************************************************************)
\* HttpMarketstackClient(access_key, plan) / HttpsMarketstackClient(...)
HttpMarketstackClient(p) ==
    [variant |-> "http", base_url |-> HTTP_BASE_URL, plan |-> p,
     warned |-> FALSE]

\* the TLS client built without the warning
HttpsMarketstackClient_silent(p) ==
    [variant |-> "https", base_url |-> HTTP_BASE_URL, plan |-> p,
     warned |-> FALSE]

HttpsMarketstackClient(p) ==
    [variant |-> "https", base_url |-> HTTP_BASE_URL, plan |-> p,
     warned |-> (p = FREE)]

\* _session handing out self._client_session unchecked
session_unchecked(cs) == [raised |-> None, value |-> cs]

\* the property _session: the session, or the RuntimeError it raises
session(cs) == IF cs = 0 THEN [raised |-> "NotInitialized", value |-> 0]
               ELSE [raised |-> None, value |-> cs]

\* ClientSession.close(): closing a closed session changes nothing
close(ss, s) == [ss EXCEPT ![s] = "closed"]

\* where the client is in its lifetime: before its first __aenter__, inside
\* a scope, or after the scopes entered so far were all exited
scope_now == IF depth > 0 THEN "inside"
             ELSE IF Len(sessions) = 0 THEN "before" ELSE "after"

\* the class of an error a query call raises
ErrClass(e) == IF e \in {"NotInitialized", "SessionClosed"} THEN "RuntimeError"
               ELSE e

(***************************************************************************)
(* Query calls.  A call is the coroutine of get_eod or get_eod_range with  *)
(* its local variables: pc is "idle" before the task's first call, "get"   *)
(* while a request is awaited, "done" once the call returned or raised.    *)
(***************************************************************************)
NoCall ==
    [pc |-> "idle", op |-> None, endpoint |-> None, url |-> <<>>,
     params |-> <<>>, nsymbols |-> 0, max_requests |-> 0, sess |-> 0,
     reqs |-> 0, status |-> 0, body |-> Body(Pagination(0, 0, 0, 0), <<>>),
     received |-> <<>>, allmore |-> TRUE, yielded |-> <<>>, result |-> <<>>,
     err |-> None, anomaly |-> FALSE, scope |-> None, answered |-> 0,
     args |-> <<>>, sent |-> {}]

\* the arguments of a call, as get_eod_range takes them: get_eod's
\* transaction_date d is the range (d, d)
CallArgs(symbols, date_range, exchange_filter) ==
    [symbols |-> symbols, date_range |-> date_range,
     exchange_filter |-> exchange_filter]

RECURSIVE Join(_)
\* ",".join(symbols)
Join(symbols) == IF Len(symbols) = 0 THEN <<>>
                 ELSE IF Len(symbols) = 1 THEN <<symbols[1]>>
                 ELSE <<symbols[1], ",">> \o Join(Tail(symbols))

\* **({} if exchange_filter is None else {"exchange": exchange_filter})
ExchangeParam(exchange_filter) ==
    IF exchange_filter = None THEN <<>> ELSE ("exchange" :> exchange_filter)

\* get_eod at plan >= BASIC: url and params of the date-scoped request
eod_url(base, transaction_date) == <<base, "/">> \o format_date(transaction_date)

eod_params(symbols, exchange_filter) ==
    ("access_key" :> "KEY") @@ ("symbols" :> Join(symbols))
    @@ ExchangeParam(exchange_filter)

\* _get_eod_range_helper: params of every page request
range_params(symbols, date_range, exchange_filter) ==
    ("access_key" :> "KEY") @@ ("symbols" :> Join(symbols))
    @@ ("date_from" :> format_date(date_range[1]))
    @@ ("date_to" :> format_date(date_range[2]))
    @@ ("limit" :> <<"1", "0", "0", "0">>)
    @@ ExchangeParam(exchange_filter)

\* a loop that runs one iteration too many
range_has_next_inclusive(i, max_requests) == i <= max_requests

\* for _ in range(max_requests): is there an iteration with index i
range_has_next(i, max_requests) == i < max_requests

\* total_so_far without the offset term
total_so_far_count(body) == body.pagination.count

\* total_so_far = limit * offset + count, of the page just received
total_so_far(body) ==
    body.pagination.limit * body.pagination.offset + body.pagination.count

\* the loop's break: total_so_far == body["pagination"]["total"]
loop_breaks(body) == total_so_far(body) = body.pagination.total

\* rows of a later page put in front of the rows of the earlier pages
yield_rows_front(yielded, data) == data \o yielded

\* for d in body["data"]: yield d -- the rows handed to the consumer so far
yield_rows(yielded, data) == yielded \o data

\* tuple(self._deserialize_eod(d) for d in ...), every row deserializing
deserialize_all(rows) == [i \in 1..Len(rows) |-> deserialize_eod(rows[i])]

\* the least of the positions S, 0 when there is none
least_position(S) == IF S = {} THEN 0 ELSE CHOOSE i \in S : \A j \in S : i <= j

\* the position of the first of the rows at which _deserialize_eod raises,
\* 0 when it raises at none
first_failing(rows) ==
    CHOOSE k \in {least_position(failing) :
                     failing \in {{i \in 1..Len(rows) :
                                      deserialize_eod(rows[i]).date = ValueError}}} :
        TRUE

\* the anomaly test of get_eod: (act_len := len(body["data"])) != 1
length_is_unexpected(data, nsymbols) == Len(data) # 1

(***************************************************************************)
(* Inputs: what callers pass and what the remote answers.                  *)
(***************************************************************************)
Tasks == {1}

SymbolLists == {<<"AMZN">>, <<"AMZN", "MSFT">>}
Day1 == [year |-> 2023, month |-> 7, day |-> 17]
Day2 == [year |-> 2023, month |-> 7, day |-> 18]
DateRanges == {<<Day1, Day2>>}
ExchangeFilters == {None, "XNAS"}
MaxRequestsArgs == -1 .. MaxRequestsArg

\* the i-th row of a page
RowAt(i) == IF i % 2 = 1 THEN Row1 ELSE Row2
DataLists == {[i \in 1..n |-> RowAt(i)] : n \in 0..MaxData}

\* a last page and a page with more to follow
Paginations == { Pagination(1000, 0, 1, 1), Pagination(1000, 0, 1, 2) }

OkResponses ==
    {[status |-> 200, body |-> Body(p, d)] : p \in Paginations, d \in DataLists}

FailedResponses ==
    { [status |-> 401,
       body |-> ErrBody(Pagination(0, 0, 0, 0), <<>>, "invalid_access_key",
                        "You have not supplied a valid API Access Key.")],
      [status |-> 404, body |-> Body(Pagination(1000, 0, 1, 1), <<Row1>>)],
      [status |-> 503, body |-> Body(Pagination(1000, 0, 1, 1), <<Row1>>)],
      [status |-> 201, body |-> Body(Pagination(1000, 0, 1, 1), <<Row1>>)] }

\* pages of status 200 with a row that does not deserialize
MalformedResponses ==
    { [status |-> 200, body |-> Body(Pagination(1000, 0, 1, 1001), <<RowBad>>)],
      [status |-> 200, body |-> Body(Pagination(1000, 0, 1, 1), <<RowBad>>)],
      [status |-> 200, body |-> Body(Pagination(1000, 0, 2, 2), <<Row1, RowBad>>)] }

Responses == OkResponses \cup FailedResponses

\* the arguments of one sess.get(url, params=params)
Request(url, params) == [url |-> url, params |-> params]

\* the page loop carrying the page's next offset into its parameters
page_params_offset(params, body) ==
    ("offset" :> Decimal(body.pagination.offset + 1)) @@ params

\* the params that the next iteration of the page loop passes to sess.get:
\* the dict built before the loop, which no iteration assigns to
page_params(params, body) == params

(***************************************************************************)
(* Steps of a query call.  Each returns the pair <<call, sessions>> after  *)
(* the step; a step of the page loop returns the bag of the suspended      *)
(* generators' sessions as a third component.                              *)
(***************************************************************************)
\* async with sess.get(url, params=params): on a closed session aiohttp
\* raises RuntimeError("Session is closed") and nothing is sent; were sess
\* None, the attribute lookup would raise
issue_get(c0, ss) ==
    LET c == [c0 EXCEPT !.sent = @ \cup {Request(c0.url, c0.params)}]
    IN  IF c.sess \notin DOMAIN ss
        THEN [c EXCEPT !.reqs = @ + 1, !.pc = "done", !.err = "AttributeError"]
        ELSE IF ss[c.sess] = "closed"
        THEN [c EXCEPT !.reqs = @ + 1, !.pc = "done", !.err = "SessionClosed"]
        ELSE [c EXCEPT !.reqs = @ + 1, !.pc = "get"]

\* the call leaves `async with self._session as sess`: the session's
\* __aexit__ closes it
leave_session(c, ss) == close(ss, c.sess)

\* _get_eod_range_helper up to its first suspension
range_start(op, symbols, date_range, exchange_filter, max_requests) ==
    LET s == session(client_session)
        c == [NoCall EXCEPT !.op = op, !.endpoint = "range",
                            !.nsymbols = Len(symbols),
                            !.max_requests = max_requests,
                            !.scope = scope_now,
                            !.args = CallArgs(symbols, date_range,
                                              exchange_filter)]
    IN  IF s.raised # None
        THEN <<[c EXCEPT !.pc = "done", !.err = s.raised], sessions>>
        ELSE LET c1 == [c EXCEPT !.sess = s.value, !.url = <<base_url>>,
                                 !.params = range_params(symbols, date_range,
                                                         exchange_filter)]
             IN  IF range_has_next(0, max_requests)
                 THEN <<issue_get(c1, sessions), sessions>>
                 ELSE <<[c1 EXCEPT !.pc = "done"], leave_session(c1, sessions)>>

\* get_eod taking the ranged query at BASIC too
eod_start_basic_ranged(symbols, transaction_date, exchange_filter) ==
    IF plan <= BASIC
    THEN range_start("get_eod", symbols, <<transaction_date, transaction_date>>,
                     exchange_filter, DefaultMaxRequests)
    ELSE LET s == session(client_session)
             c == [NoCall EXCEPT !.op = "get_eod", !.endpoint = "date",
                                 !.nsymbols = Len(symbols),
                                 !.max_requests = 1,
                                 !.scope = scope_now,
                                 !.args = CallArgs(symbols,
                                                   <<transaction_date,
                                                     transaction_date>>,
                                                   exchange_filter)]
         IN  IF s.raised # None
             THEN <<[c EXCEPT !.pc = "done", !.err = s.raised], sessions>>
             ELSE <<issue_get([c EXCEPT !.sess = s.value,
                                 !.url = eod_url(base_url, transaction_date),
                                 !.params = eod_params(symbols, exchange_filter)],
                              sessions),
                    sessions>>

\* get_eod up to its first suspension
eod_start(symbols, transaction_date, exchange_filter) ==
    IF plan < BASIC
    THEN range_start("get_eod", symbols, <<transaction_date, transaction_date>>,
                     exchange_filter, DefaultMaxRequests)
    ELSE LET s == session(client_session)
             c == [NoCall EXCEPT !.op = "get_eod", !.endpoint = "date",
                                 !.nsymbols = Len(symbols),
                                 !.max_requests = 1,
                                 !.scope = scope_now,
                                 !.args = CallArgs(symbols,
                                                   <<transaction_date,
                                                     transaction_date>>,
                                                   exchange_filter)]
         IN  IF s.raised # None
             THEN <<[c EXCEPT !.pc = "done", !.err = s.raised], sessions>>
             ELSE <<issue_get([c EXCEPT !.sess = s.value,
                                 !.url = eod_url(base_url, transaction_date),
                                 !.params = eod_params(symbols, exchange_filter)],
                              sessions),
                    sessions>>

\* the response r reaches the call: its locals resp and body, and what the
\* model remembers of the pages received
receive(c, r) ==
    [c EXCEPT !.status = r.status, !.body = r.body, !.answered = @ + 1,
              !.received = IF r.status = 200 THEN @ \o r.body.data ELSE @,
              !.allmore = @ /\ r.status = 200
                            /\ r.body.pagination.limit * r.body.pagination.offset
                               + r.body.pagination.count
                               # r.body.pagination.total]

\* get_eod failing the call on an unexpected number of rows
eod_resume_strict(c0, r) ==
    LET c == receive(c0, r)
        out == handle_if_error(r.status, r.body)
    IN  IF out # "ok"
        THEN <<[c EXCEPT !.pc = "done", !.err = out], leave_session(c, sessions)>>
        ELSE IF length_is_unexpected(r.body.data, c.nsymbols)
        THEN <<[c EXCEPT !.pc = "done", !.anomaly = TRUE, !.err = "RuntimeError"],
               leave_session(c, sessions)>>
        ELSE IF first_failing(r.body.data) > 0
        THEN <<[c EXCEPT !.pc = "done", !.err = "ValueError"],
               leave_session(c, sessions)>>
        ELSE <<[c EXCEPT !.pc = "done",
                         !.result = deserialize_all(r.body.data)],
               leave_session(c, sessions)>>

\* get_eod, date-scoped request: from the response to the return, or to
\* the ValueError of a row that does not deserialize; both leave the
\* `async with` blocks
eod_resume(c0, r) ==
    LET c == receive(c0, r)
        out == handle_if_error(r.status, r.body)
    IN  IF out # "ok"
        THEN <<[c EXCEPT !.pc = "done", !.err = out], leave_session(c, sessions)>>
        ELSE LET c1 == [c EXCEPT !.anomaly = length_is_unexpected(r.body.data,
                                                                  c.nsymbols)]
             IN  IF first_failing(r.body.data) > 0
                 THEN <<[c1 EXCEPT !.pc = "done", !.err = "ValueError"],
                        leave_session(c1, sessions)>>
                 ELSE <<[c1 EXCEPT !.pc = "done",
                                   !.result = deserialize_all(r.body.data)],
                        leave_session(c1, sessions)>>

\* the rows of data that the generator yields before its consumer stops
\* it at the k-th, the first that does not deserialize
rows_yielded(data, k) == SubSeq(data, 1, k)

\* the consumer takes the rows of the 200 page r, of which the k-th is the
\* first that does not deserialize (k = 0: none), and the loop goes on.
\* The consumer deserializes each row as the generator yields it; at a
\* row that raises, the call ends with the generator left at its `yield`,
\* inside `async with self._session`, so that the session stays as it is
consume_page(c, r, k) ==
    IF k > 0
    THEN <<[c EXCEPT !.pc = "done", !.err = "ValueError",
                     !.yielded = yield_rows(@, rows_yielded(r.body.data, k))],
           sessions, suspended (+) SetToBag({c.sess})>>
    ELSE LET c1 == [c EXCEPT !.yielded = yield_rows(@, r.body.data)]
         IN  IF ~loop_breaks(r.body) /\ range_has_next(c1.reqs, c1.max_requests)
             THEN LET c2 == issue_get([c1 EXCEPT !.params =
                                             page_params(@, r.body)],
                                      sessions)
                  IN  <<c2, IF c2.pc = "done" THEN leave_session(c2, sessions)
                            ELSE sessions,
                        suspended>>
             ELSE <<[c1 EXCEPT !.pc = "done",
                               !.result = deserialize_all(c1.yielded)],
                    leave_session(c1, sessions), suspended>>

\* the page loop asking again for a page that failed, while its budget lasts
range_resume_retry(c0, r) ==
    LET c == receive(c0, r)
        out == handle_if_error(r.status, r.body)
    IN  IF out # "ok"
        THEN IF range_has_next(c.reqs, c.max_requests)
             THEN LET c2 == issue_get(c, sessions)
                  IN  <<c2, IF c2.pc = "done" THEN leave_session(c2, sessions)
                            ELSE sessions,
                        suspended>>
             ELSE <<[c EXCEPT !.pc = "done", !.err = out],
                    leave_session(c, sessions), suspended>>
        ELSE consume_page(c, r, first_failing(r.body.data))

\* _get_eod_range_helper and its consumer: from a page's response to the
\* next sess.get, or to the end of the call
range_resume(c0, r) ==
    LET c == receive(c0, r)
        out == handle_if_error(r.status, r.body)
    IN  IF out # "ok"
        THEN <<[c EXCEPT !.pc = "done", !.err = out],
               leave_session(c, sessions), suspended>>
        ELSE consume_page(c, r, first_failing(r.body.data))

(***************************************************************************)
(* Actions.                                                                *)
(***************************************************************************)
ClientUnchanged == UNCHANGED <<plan, variant, base_url, warned>>
ClassifierUnchanged ==
    UNCHANGED <<remote_total, cl_resp, cl_out, rt_date, rt_row, rt_eod>>

\* async def __aenter__: a new session takes the client's slot, whatever
\* the calls in flight are doing
AEnter ==
    /\ Len(sessions) < MaxSessions
    /\ sessions' = Append(sessions, "open")
    /\ client_session' = Len(sessions) + 1
    /\ depth' = depth + 1
    /\ UNCHANGED calls
    /\ ClientUnchanged /\ ClassifierUnchanged /\ UNCHANGED suspended

\* async def __aexit__, run to leave a scope that was entered: the session
\* in the client's slot is closed, also under a call in flight on it
AExit ==
    /\ depth > 0
    /\ sessions' = close(sessions, session(client_session).value)
    /\ depth' = depth - 1
    /\ UNCHANGED <<client_session, calls>>
    /\ ClientUnchanged /\ ClassifierUnchanged /\ UNCHANGED suspended

\* a caller awaits get_eod(symbols, transaction_date, exchange_filter),
\* its symbols, date and filter drawn from the given sets
GetEod(t, symbol_lists, days, filters) ==
    /\ calls[t].pc # "get"
    /\ \E symbols \in symbol_lists, d \in days, x \in filters :
          LET step == eod_start(symbols, d, x)
          IN  /\ calls' = [calls EXCEPT ![t] = step[1]]
              /\ sessions' = step[2]
    /\ UNCHANGED <<client_session, depth>>
    /\ ClientUnchanged /\ ClassifierUnchanged /\ UNCHANGED suspended

\* a caller awaits get_eod_range(symbols, date_range, exchange_filter,
\* max_requests), its symbols, filter and max_requests drawn from the given
\* sets
GetEodRange(t, symbol_lists, filters, budgets) ==
    /\ calls[t].pc # "get"
    /\ \E symbols \in symbol_lists, dr \in DateRanges, x \in filters,
          m \in budgets :
          LET step == range_start("get_eod_range", symbols, dr, x, m)
          IN  /\ calls' = [calls EXCEPT ![t] = step[1]]
              /\ sessions' = step[2]
    /\ UNCHANGED <<client_session, depth>>
    /\ ClientUnchanged /\ ClassifierUnchanged /\ UNCHANGED suspended

\* the remote answers the date-scoped request of get_eod with one of the
\* given responses
RespondEod(t, responses) ==
    /\ calls[t].pc = "get"
    /\ calls[t].endpoint = "date"
    /\ \E r \in responses :
          \E step \in {eod_resume(calls[t], r)} :
              /\ calls' = [calls EXCEPT ![t] = step[1]]
              /\ sessions' = step[2]
    /\ UNCHANGED <<client_session, depth>>
    /\ ClientUnchanged /\ ClassifierUnchanged /\ UNCHANGED suspended

\* the remote answers a page request of the ranged query with one of the
\* given responses
RespondRange(t, responses) ==
    /\ calls[t].pc = "get"
    /\ calls[t].endpoint = "range"
    /\ \E r \in responses :
          /\ r.status = 200 =>
                Len(calls[t].received) + Len(r.body.data) <= MaxRows
          /\ \E step \in {range_resume(calls[t], r)} :
                /\ BagCardinality(step[3]) <= MaxSuspended
                /\ calls' = [calls EXCEPT ![t] = step[1]]
                /\ sessions' = step[2]
                /\ suspended' = step[3]
    /\ UNCHANGED <<client_session, depth>>
    /\ ClientUnchanged /\ ClassifierUnchanged

\* the connection of an awaited request fails, on the network or because
\* the session was closed under the request and its connector dropped the
\* connection: the await raises a connection error in place of a response,
\* and the error leaves `async with self._session`
Disconnect(t) ==
    /\ calls[t].pc = "get"
    /\ calls' = [calls EXCEPT ![t] = [@ EXCEPT !.pc = "done",
                                               !.err = "ClientConnectionError"]]
    /\ sessions' = leave_session(calls[t], sessions)
    /\ UNCHANGED <<client_session, depth>>
    /\ ClientUnchanged /\ ClassifierUnchanged /\ UNCHANGED suspended

\* the event loop finalizes a generator that its consumer left at the
\* `yield`, once nothing refers to it: GeneratorExit is raised there and
\* leaves `async with self._session`, whose __aexit__ closes the session
FinalizeGenerator ==
    /\ \E s \in BagToSet(suspended) :
          /\ sessions' = close(sessions, s)
          /\ suspended' = suspended (-) SetToBag({s})
    /\ UNCHANGED <<client_session, depth, calls>>
    /\ ClientUnchanged /\ ClassifierUnchanged

Clients == {HttpMarketstackClient(p) : p \in MarketstackPlan}

\* a client right after its constructor
Init ==
    /\ \E c \in Clients :
          /\ plan = c.plan
          /\ variant = c.variant
          /\ base_url = c.base_url
          /\ warned = c.warned
    /\ client_session = 0
    /\ sessions = <<>>
    /\ depth = 0
    /\ calls = [t \in Tasks |-> NoCall]
    /\ suspended = EmptyBag
    /\ remote_total = 0
    /\ cl_resp = [status |-> 200, body |-> Body(Pagination(0, 0, 0, 0), <<>>)]
    /\ cl_out = None
    /\ rt_date = Day1
    /\ rt_row = <<>>
    /\ rt_eod = <<>>

Next ==
    \/ AEnter
    \/ AExit
    \/ \E t \in Tasks : GetEod(t, {<<"AMZN">>}, {Day1}, {None})
    \/ \E t \in Tasks : GetEodRange(t, {<<"AMZN">>}, {None}, MaxRequestsArgs)
    \/ \E t \in Tasks : RespondEod(t, Responses)
    \/ \E t \in Tasks : RespondRange(t, Responses)
    \/ \E t \in Tasks : Disconnect(t)

Spec == Init /\ [][Next]_vars

(***************************************************************************)
(* Rows that do not deserialize: a client at the FREE plan, both of whose  *)
(* queries are the ranged query, and a remote some of whose pages carry a  *)
(* row with a date that is no day of the calendar.                         *)
(***************************************************************************)
RowsResponses ==
    { [status |-> 200, body |-> Body(Pagination(1000, 0, 1, 1), <<Row1, Row2>>)],
      [status |-> 200, body |-> Body(Pagination(1000, 0, 1, 2), <<Row1>>)],
      [status |-> 200, body |-> Body(Pagination(1000, 1, 1, 1), <<Row1, Row2>>)],
      [status |-> 404, body |-> Body(Pagination(1000, 0, 1, 1), <<Row1>>)] }
    \cup MalformedResponses

InitRows ==
    /\ LET c == HttpMarketstackClient(FREE)
       IN  /\ plan = c.plan
           /\ variant = c.variant
           /\ base_url = c.base_url
           /\ warned = c.warned
    /\ client_session = 0
    /\ sessions = <<>>
    /\ depth = 0
    /\ calls = [t \in Tasks |-> NoCall]
    /\ suspended = EmptyBag
    /\ remote_total = 0
    /\ cl_resp = [status |-> 200, body |-> Body(Pagination(0, 0, 0, 0), <<>>)]
    /\ cl_out = None
    /\ rt_date = Day1
    /\ rt_row = <<>>
    /\ rt_eod = <<>>

NextRows ==
    \/ AEnter
    \/ AExit
    \/ \E t \in Tasks : GetEod(t, {<<"AMZN">>}, {Day1}, {None})
    \/ \E t \in Tasks : GetEodRange(t, {<<"AMZN">>}, {None}, MaxRequestsArgs)
    \/ \E t \in Tasks : RespondRange(t, RowsResponses)
    \/ \E t \in Tasks : Disconnect(t)
    \/ FinalizeGenerator

SpecRows == InitRows /\ [][NextRows]_vars

(***************************************************************************)
(* The requests of the queries: both public client classes at every plan,  *)
(* every combination of arguments, and a remote that answers a date-scoped *)
(* request with any number of rows and a page request with a page that     *)
(* either ends the enumeration or does not.                                *)
(***************************************************************************)
AllClients == Clients \cup {HttpsMarketstackClient(p) : p \in MarketstackPlan}

Days == {Day1, Day2}

Rejected ==
    [status |-> 401,
     body |-> ErrBody(Pagination(0, 0, 0, 0), <<>>, "invalid_access_key",
                      "You have not supplied a valid API Access Key.")]

\* answers to the date-scoped request, one of them with a row that does
\* not deserialize
EodResponses ==
    {[status |-> 200, body |-> Body(Pagination(1000, 0, Len(d), Len(d)), d)] :
        d \in DataLists}
    \cup {[status |-> 200,
           body |-> Body(Pagination(1000, 0, 2, 2), <<Row1, RowBad>>)]}
    \cup {Rejected}

\* answers to a page request: a last page, a page with more to follow
PageResponses ==
    {[status |-> 200, body |-> Body(Pagination(1000, 0, Len(d), Len(d)), d)] :
        d \in DataLists}
    \cup {[status |-> 200, body |-> Body(Pagination(1000, 0, 1, 1001), <<Row1>>)]}
    \cup {Rejected}

InitRequests ==
    /\ \E c \in AllClients :
          /\ plan = c.plan
          /\ variant = c.variant
          /\ base_url = c.base_url
          /\ warned = c.warned
    /\ client_session = 0
    /\ sessions = <<>>
    /\ depth = 0
    /\ calls = [t \in Tasks |-> NoCall]
    /\ suspended = EmptyBag
    /\ remote_total = 0
    /\ cl_resp = [status |-> 200, body |-> Body(Pagination(0, 0, 0, 0), <<>>)]
    /\ cl_out = None
    /\ rt_date = Day1
    /\ rt_row = <<>>
    /\ rt_eod = <<>>

NextRequests ==
    \/ AEnter
    \/ AExit
    \/ \E t \in Tasks : GetEod(t, SymbolLists, Days, ExchangeFilters)
    \/ \E t \in Tasks : GetEodRange(t, SymbolLists, ExchangeFilters,
                                    {0, MaxRequestsArg})
    \/ \E t \in Tasks : RespondEod(t, EodResponses)
    \/ \E t \in Tasks : RespondRange(t, PageResponses)
    \/ \E t \in Tasks : Disconnect(t)

SpecRequests == InitRequests /\ [][NextRequests]_vars

(***************************************************************************)
(* Concurrent queries: a caller runs up to MaxTasks query calls on the one *)
(* client at a time (asyncio tasks, as asyncio.gather starts them).  A     *)
(* task runs without interruption between two suspension points, so the    *)
(* steps of the calls interleave at their requests.                        *)
(***************************************************************************)
ConcurrentTasks == 1..MaxTasks

\* answers of the remote: a last page of one row, a page with more to
\* follow, a rejection
ConcurrentResponses ==
    { [status |-> 200, body |-> Body(Pagination(1000, 0, 1, 1), <<Row1>>)],
      [status |-> 200, body |-> Body(Pagination(1000, 0, 1, 1001), <<Row1>>)],
      Rejected }

InitConcurrent ==
    /\ \E c \in Clients :
          /\ plan = c.plan
          /\ variant = c.variant
          /\ base_url = c.base_url
          /\ warned = c.warned
    /\ client_session = 0
    /\ sessions = <<>>
    /\ depth = 0
    /\ calls = [t \in ConcurrentTasks |-> NoCall]
    /\ suspended = EmptyBag
    /\ remote_total = 0
    /\ cl_resp = [status |-> 200, body |-> Body(Pagination(0, 0, 0, 0), <<>>)]
    /\ cl_out = None
    /\ rt_date = Day1
    /\ rt_row = <<>>
    /\ rt_eod = <<>>

NextConcurrent ==
    \/ AEnter
    \/ AExit
    \/ \E t \in ConcurrentTasks : GetEod(t, {<<"AMZN">>}, {Day1}, {None})
    \/ \E t \in ConcurrentTasks : GetEodRange(t, {<<"AMZN">>}, {None}, MaxRequestsArgs)
    \/ \E t \in ConcurrentTasks : RespondEod(t, ConcurrentResponses)
    \/ \E t \in ConcurrentTasks : RespondRange(t, ConcurrentResponses)
    \/ \E t \in ConcurrentTasks : Disconnect(t)

SpecConcurrent == InitConcurrent /\ [][NextConcurrent]_vars

(***************************************************************************)
(* A paging remote: it holds remote_total rows for the query and answers   *)
(* every page request with the rows that the request's offset and limit    *)
(* parameters select, and with the pagination metadata of that page.       *)
(***************************************************************************)
RemoteTotals == {0, 1, 1000, 1001}

\* the i-th row the remote holds
RemoteRow(i) == [Row1 EXCEPT !.volume = i]

remote_page(params, total) ==
    LET limit == ParseDecimal(params["limit"])
        offset == IF "offset" \in DOMAIN params
                  THEN ParseDecimal(params["offset"]) ELSE 0
        left == IF total > offset THEN total - offset ELSE 0
        count == IF left < limit THEN left ELSE limit
    IN  [status |-> 200,
         body |-> Body(Pagination(limit, offset, count, total),
                       [i \in 1..count |-> RemoteRow(offset + i)])]

\* the paging remote answers a page request of the ranged query
RemoteRespondRange(t) ==
    /\ calls[t].pc = "get"
    /\ calls[t].endpoint = "range"
    /\ \E step \in {range_resume(calls[t],
                                   remote_page(calls[t].params, remote_total))} :
          /\ calls' = [calls EXCEPT ![t] = step[1]]
          /\ sessions' = step[2]
          /\ suspended' = step[3]
    /\ UNCHANGED <<client_session, depth>>
    /\ ClientUnchanged /\ ClassifierUnchanged

InitRemote ==
    /\ \E c \in Clients :
          /\ plan = c.plan
          /\ variant = c.variant
          /\ base_url = c.base_url
          /\ warned = c.warned
    /\ client_session = 0
    /\ sessions = <<>>
    /\ depth = 0
    /\ calls = [t \in Tasks |-> NoCall]
    /\ suspended = EmptyBag
    /\ remote_total \in RemoteTotals
    /\ cl_resp = [status |-> 200, body |-> Body(Pagination(0, 0, 0, 0), <<>>)]
    /\ cl_out = None
    /\ rt_date = Day1
    /\ rt_row = <<>>
    /\ rt_eod = <<>>

NextRemote ==
    \/ AEnter
    \/ AExit
    \/ \E t \in Tasks : GetEodRange(t, SymbolLists, ExchangeFilters,
                                    MaxRequestsArgs)
    \/ \E t \in Tasks : RemoteRespondRange(t)
    \/ \E t \in Tasks : Disconnect(t)

SpecRemote == InitRemote /\ [][NextRemote]_vars

(***************************************************************************)
(* The classifier on its own: one (status, body) is drawn and              *)
(* _handle_if_error is applied to it.                                      *)
(***************************************************************************)
Statuses == {200, 201, 204, 301, 400, 401, 403, 404, 429, 500, 503}

\* the keys of the table's sub-tables that name a sub-kind
TableCodes == UNION {DOMAIN err_map[st] \ {"default"} : st \in DOMAIN err_map}

\* codes that an error envelope carries: the table's keys, and codes of the
\* remote that are no key of the table
ErrorCodes == TableCodes \cup {"resource_not_found", "validation_error"}

ErrorMessages ==
    ErrorCodes \cup {"default", "You have not supplied a valid API Access Key."}

ClassifierBodies ==
    {Body(Pagination(1000, 0, 1, 1), <<Row1>>), Body(Pagination(0, 0, 0, 0), <<>>)}
    \cup {ErrBody(Pagination(0, 0, 0, 0), <<>>, code, message) :
             code \in ErrorCodes, message \in ErrorMessages}

InitClassifier ==
    /\ plan = DefaultPlan
    /\ variant = "http"
    /\ base_url = HTTP_BASE_URL
    /\ warned = FALSE
    /\ client_session = 0
    /\ sessions = <<>>
    /\ depth = 0
    /\ calls = [t \in Tasks |-> NoCall]
    /\ suspended = EmptyBag
    /\ remote_total = 0
    /\ cl_resp \in [status : Statuses, body : ClassifierBodies]
    /\ cl_out = None
    /\ rt_date = Day1
    /\ rt_row = <<>>
    /\ rt_eod = <<>>

\* await self._handle_if_error(resp, body, log)
Classify ==
    /\ cl_out = None
    /\ cl_out' = handle_if_error(cl_resp.status, cl_resp.body)
    /\ UNCHANGED <<plan, variant, base_url, warned, client_session, sessions,
                   depth, calls, suspended, remote_total, cl_resp, rt_date,
                   rt_row, rt_eod>>

NextClassifier == Classify

SpecClassifier == InitClassifier /\ [][NextClassifier]_vars

(***************************************************************************)
(* The date conversions on their own: a date d is formatted by             *)
(* _format_date, the string is put into a row as the remote would return   *)
(* it (alone or followed by a time of day), and _deserialize_eod is        *)
(* applied to the row.                                                     *)
(***************************************************************************)
RoundTripYears == {1, 999, 1000, 2023, 2024, 9999}

RoundTripDates ==
    {d \in [year : RoundTripYears, month : {1, 2, 12}, day : {1, 28, 29, 31}] :
        d.day <= DaysInMonth(d.year, d.month)}

\* what follows the calendar date in a row's date string
TimeSuffixes ==
    { <<>>,
      <<"T", "0", "0", ":", "0", "0", ":", "0", "0", "+", "0", "0", "0", "0">>,
      <<"T", "2", "3", ":", "5", "9", ":", "5", "9", "+", "0", "0", "0", "0">> }

InitDates ==
    /\ plan = DefaultPlan
    /\ variant = "http"
    /\ base_url = HTTP_BASE_URL
    /\ warned = FALSE
    /\ client_session = 0
    /\ sessions = <<>>
    /\ depth = 0
    /\ calls = [t \in Tasks |-> NoCall]
    /\ suspended = EmptyBag
    /\ remote_total = 0
    /\ cl_resp = [status |-> 200, body |-> Body(Pagination(0, 0, 0, 0), <<>>)]
    /\ cl_out = None
    /\ rt_date \in RoundTripDates
    /\ rt_row = <<>>
    /\ rt_eod = <<>>

\* self._format_date(d), and a row that carries the string as its date
FormatDate ==
    /\ rt_row = <<>>
    /\ \E row \in {Row1, Row2}, suffix \in TimeSuffixes :
          rt_row' = <<[row EXCEPT !.date = format_date(rt_date) \o suffix]>>
    /\ UNCHANGED <<plan, variant, base_url, warned, client_session, sessions,
                   depth, calls, suspended, remote_total, cl_resp, cl_out,
                   rt_date, rt_eod>>

\* self._deserialize_eod(raw_eod)
DeserializeEod ==
    /\ rt_row # <<>>
    /\ rt_eod = <<>>
    /\ rt_eod' = <<deserialize_eod(rt_row[1])>>
    /\ UNCHANGED <<plan, variant, base_url, warned, client_session, sessions,
                   depth, calls, suspended, remote_total, cl_resp, cl_out,
                   rt_date, rt_row>>

NextDates == FormatDate \/ DeserializeEod

SpecDates == InitDates /\ [][NextDates]_vars

(***************************************************************************)
(* The table of the specification: the kind assigned to (status, code).    *)
(***************************************************************************)
HasEnvelope(body) == "error" \in DOMAIN body

TableKind(status, code) ==
    CASE status = 401 /\ code = "invalid_access_key" -> "InvalidAccessKeyError"
      [] status = 401 /\ code = "missing_access_key" -> "MissingAccessKeyError"
      [] status = 401 /\ code = "inactive_user" -> "InactiveUserError"
      [] status = 403 /\ code = "https_access_restricted" -> "HttpsAccessRestrictedError"
      [] status = 403 /\ code = "function_access_restricted" -> "FunctionAccessRestrictedError"
      [] status = 404 /\ code = "invalid_api_function" -> "InvalidApiFunctionError"
      [] status = 404 /\ code = "resource_not_found" -> "ResourceNotFoundError"
      [] status = 429 /\ code = "usage_limit_reached" -> "UsageLimitReachedError"
      [] status = 429 /\ code = "rate_limit_reached" -> "RateLimitReachedError"
      [] OTHER -> CASE status = 401 -> "UnauthorizedError"
                    [] status = 403 -> "ForbiddenError"
                    [] status = 404 -> "NotFoundError"
                    [] status = 429 -> "TooManyRequestsError"
                    [] status = 500 -> "InternalErrorError"
                    [] OTHER -> "UnhandledResponseError"

\* C1: a non-200 response with an error envelope is classified as the kind
\* the table assigns to (status, body.error.code), and a status outside the
\* table as UnhandledResponseError.
C1_TableKindRaised ==
    (cl_out # None /\ cl_resp.status # 200 /\ HasEnvelope(cl_resp.body))
        => cl_out = TableKind(cl_resp.status, cl_resp.body.error.code)

TypedApiErrors == {k \in DOMAIN BaseOf : IsInstance(k, "ResponseError")}

\* C10 as stated: every non-2xx response without an error envelope raises
\* the protocol-violation RuntimeError, whatever its status.
C10_NoEnvelopeAlwaysRuntimeError ==
    (cl_out # None /\ cl_resp.status \notin 200..299 /\ ~HasEnvelope(cl_resp.body))
        => cl_out = "RuntimeError"

\* C10, amended: without an error envelope, a status of the table
\* (401, 403, 404, 429, 500) raises the protocol-violation RuntimeError and
\* no typed API error; any other status but 200 raises
\* UnhandledResponseError.
C10_NoEnvelopeByStatus ==
    (cl_out # None /\ cl_resp.status # 200 /\ ~HasEnvelope(cl_resp.body))
        => IF cl_resp.status \in {401, 403, 404, 429, 500}
           THEN cl_out = "RuntimeError" /\ cl_out \notin TypedApiErrors
           ELSE cl_out = "UnhandledResponseError"

C10_Witness ==
    /\ cl_resp.status = 404 /\ ~HasEnvelope(cl_resp.body)
    /\ cl_out = "RuntimeError"

(***************************************************************************)
(* Properties of the queries and of the session's lifetime.                *)
(***************************************************************************)
Returned(c) == c.pc = "done" /\ c.err = None
Raised(c) == c.pc = "done" /\ c.err # None

\* C2: a response whose status is not 200 ends the call with an error
\* raised by the classifier, and the call returns no records, whatever the
\* body carries.
C2_Non200NeverReturns ==
    \A t \in DOMAIN calls :
        (calls[t].answered > 0 /\ calls[t].status # 200)
            => /\ Raised(calls[t])
               /\ calls[t].err \in TypedApiErrors \cup {"RuntimeError"}
               /\ calls[t].result = <<>>

C2_Witness ==
    \E t \in DOMAIN calls :
        /\ calls[t].op = "get_eod_range"
        /\ calls[t].answered = 2
        /\ calls[t].status = 201
        /\ calls[t].body.data # <<>>
        /\ calls[t].yielded # <<>>
        /\ Raised(calls[t])

\* C3 as stated: inside the client's scope the session is open, so that
\* every call made there finds it open.
C3_SessionOpenInsideScope ==
    (Len(sessions) = 1 /\ depth = 1) => sessions[client_session] = "open"

\* C4: a ranged call issues at most max_requests GET requests, none when
\* max_requests <= 0.
C4_AtMostMaxRequests ==
    \A t \in DOMAIN calls :
        calls[t].endpoint = "range"
            => calls[t].reqs <= (IF calls[t].max_requests > 0
                                 THEN calls[t].max_requests ELSE 0)

C4_Witness ==
    \E t \in DOMAIN calls :
        /\ calls[t].op = "get_eod_range"
        /\ calls[t].max_requests = MaxRequestsArg
        /\ calls[t].reqs = MaxRequestsArg
        /\ calls[t].answered = MaxRequestsArg
        /\ calls[t].allmore
        /\ Returned(calls[t])

\* the errors of the transport: sess.get was called and nothing came back
TransportErrors == {"SessionClosed", "ClientConnectionError"}

\* C5: once a ranged call has received a 200 page whose rows all
\* deserialize, limit * offset + count of that page is compared with its
\* total: when they are equal the call
\* has returned without another request; when they differ, sess.get was
\* called once more exactly when fewer than max_requests requests had been
\* made (that request being awaited, or failed by the transport), and else
\* the call has returned.  (A page is handled in the step that receives
\* it, so `answered` counts the requests made before the decision.)
C5_StoppingRule ==
    \A t \in DOMAIN calls :
        (calls[t].endpoint = "range" /\ calls[t].answered > 0
                                     /\ calls[t].status = 200
                                     /\ first_failing(calls[t].body.data) = 0)
            => LET p == calls[t].body.pagination
                   seen == p.limit * p.offset + p.count
               IN  IF seen # p.total /\ calls[t].answered < calls[t].max_requests
                   THEN /\ calls[t].reqs = calls[t].answered + 1
                        /\ \/ calls[t].pc = "get"
                           \/ /\ Raised(calls[t])
                              /\ calls[t].err \in TransportErrors
                   ELSE /\ calls[t].reqs = calls[t].answered
                        /\ Returned(calls[t])

C5_Witness ==
    \E t \in DOMAIN calls :
        /\ calls[t].op = "get_eod_range"
        /\ calls[t].max_requests = 2
        /\ calls[t].reqs = 1
        /\ calls[t].body.pagination = Pagination(1000, 0, 1, 1)
        /\ Len(calls[t].body.data) = 2
        /\ Returned(calls[t])

\* C6: a ranged call with max_requests = N >= 0 that got hold of the
\* session and whose every request was answered by a 200 page with
\* limit * offset + count # total, its rows deserializing, issues exactly N
\* requests, raises nothing and returns the deserialized rows of those
\* pages in the order received.
C6_BudgetExhaustedReturnsPartial ==
    \A t \in DOMAIN calls :
        ( /\ calls[t].pc = "done"
          /\ calls[t].endpoint = "range"
          /\ calls[t].max_requests >= 0
          /\ calls[t].sess # 0
          /\ calls[t].answered = calls[t].reqs
          /\ calls[t].allmore
          /\ first_failing(calls[t].received) = 0 )
            => /\ calls[t].reqs = calls[t].max_requests
               /\ calls[t].err = None
               /\ calls[t].result =
                     [i \in 1..Len(calls[t].received) |->
                         deserialize_eod(calls[t].received[i])]

C6_Witness ==
    \E t \in DOMAIN calls :
        /\ Returned(calls[t])
        /\ calls[t].op = "get_eod_range"
        /\ calls[t].max_requests = 2
        /\ calls[t].reqs = 2
        /\ calls[t].allmore
        /\ calls[t].result = <<deserialize_eod(Row1), deserialize_eod(Row1),
                               deserialize_eod(Row2)>>

\* C8: on a client that was never entered, get_eod and get_eod_range raise
\* the not-initialized RuntimeError at every plan tier and issue no request.
C8_NeverEnteredRaises ==
    \A t \in DOMAIN calls :
        (calls[t].op # None /\ calls[t].scope = "before")
            => /\ Raised(calls[t])
               /\ calls[t].err = "NotInitialized"
               /\ ErrClass(calls[t].err) = "RuntimeError"
               /\ calls[t].reqs = 0

C8_Witness ==
    \E t \in DOMAIN calls :
        /\ plan = FREE
        /\ calls[t].op = "get_eod"
        /\ calls[t].scope = "before"
        /\ calls[t].err = "NotInitialized"

\* C9 as stated: a call made after the client's scope was exited raises the
\* same not-initialized error as before entry and issues no request.
C9_AfterExitRaisesNotInitialized ==
    \A t \in DOMAIN calls :
        (calls[t].op # None /\ calls[t].scope = "after")
            => /\ Raised(calls[t])
               /\ calls[t].err = "NotInitialized"
               /\ calls[t].reqs = 0

\* pages of `limit` rows that `total` rows fill
PagesOf(total, limit) == (total + limit - 1) \div limit

\* C7 as stated: against the paging remote, a ranged call whose requests
\* were all answered and whose max_requests is at least the number of pages
\* returns each of the remote's rows exactly once.
C7_CompleteEnumeration ==
    \A t \in DOMAIN calls :
        ( /\ calls[t].pc = "done"
          /\ calls[t].endpoint = "range"
          /\ calls[t].sess # 0
          /\ calls[t].answered = calls[t].reqs
          /\ calls[t].max_requests >= PagesOf(remote_total, 1000) )
            => /\ calls[t].err = None
               /\ Len(calls[t].result) = remote_total
               /\ {calls[t].result[j] : j \in 1..Len(calls[t].result)}
                  = {deserialize_eod(RemoteRow(i)) : i \in 1..remote_total}

(***************************************************************************)
(* Properties of the requests that the queries issue.                      *)
(***************************************************************************)
\* the parameters that only a page request of the ranged query carries
RangeOnlyParams == {"date_from", "date_to", "limit"}

\* C11: at a plan below BASIC, get_eod runs the ranged query for
\* (date, date) with the default budget: it never requests the date-scoped
\* URL, its requests go to the collection endpoint with date_from = date_to
\* = the formatted date, and what it returns is what the ranged query
\* returns for the pages received.  At BASIC and above, a get_eod that got
\* hold of the session issues exactly one GET, to base_url/<date>, without a
\* date_from, date_to or limit parameter, whatever the response is.
C11_PlanGating ==
    \A t \in DOMAIN calls :
        (calls[t].op = "get_eod" /\ calls[t].sess # 0)
            => LET c == calls[t]
                   d == c.args.date_range[1]
               IN  IF plan < BASIC
                   THEN /\ c.endpoint = "range"
                        /\ c.url = <<base_url>>
                        /\ c.max_requests = DefaultMaxRequests
                        /\ c.args.date_range = <<d, d>>
                        /\ c.params["date_from"] = format_date(d)
                        /\ c.params["date_to"] = format_date(d)
                        /\ c.params
                           = range_params(c.args.symbols, <<d, d>>,
                                          c.args.exchange_filter)
                        /\ Returned(c) => c.result = deserialize_all(c.received)
                   ELSE /\ c.endpoint = "date"
                        /\ c.url = <<base_url, "/">> \o format_date(d)
                        /\ c.reqs = 1
                        /\ c.pc = "done" => c.answered <= 1
                        /\ DOMAIN c.params \cap RangeOnlyParams = {}

\* a free-plan get_eod that was answered two pages
C11_Witness ==
    \E t \in DOMAIN calls :
        /\ plan = FREE
        /\ calls[t].op = "get_eod"
        /\ calls[t].args.date_range[1] = Day2
        /\ calls[t].args.exchange_filter = "XNAS"
        /\ calls[t].answered = 2
        /\ Returned(calls[t])
        /\ Len(calls[t].result) = 2

\* the base endpoint that a client class names
SchemeEndpoint(v) == IF v = "https" THEN HTTPS_BASE_URL ELSE HTTP_BASE_URL

\* C12 as stated: every request of an HttpMarketstackClient targets the
\* http:// endpoint and every request of an HttpsMarketstackClient the
\* https:// endpoint, for the single-date and the ranged query alike.
C12_VariantEndpoint ==
    \A t \in DOMAIN calls :
        calls[t].reqs > 0 => calls[t].url[1] = SchemeEndpoint(variant)

\* C13: an HttpsMarketstackClient built with the FREE plan has warned and
\* is a working client: it can be entered, and a query made inside its scope
\* is not refused by the client but issues its request (a ranged query
\* whenever its budget allows one).
C13_FreeTlsWarnsNotFatal ==
    (variant = "https" /\ plan = FREE)
        => /\ warned
           /\ \A t \in DOMAIN calls :
                 (calls[t].op # None /\ calls[t].scope = "inside")
                     => /\ calls[t].err # "NotInitialized"
                        /\ calls[t].sess # 0
                        /\ calls[t].max_requests > 0 => calls[t].reqs >= 1

\* the free TLS client, entered, with the request of a get_eod in flight
C13_Witness ==
    /\ variant = "https" /\ plan = FREE /\ warned
    /\ depth = 1
    /\ \E t \in DOMAIN calls :
          /\ calls[t].op = "get_eod"
          /\ calls[t].pc = "get"
          /\ calls[t].reqs = 1
          /\ sessions[calls[t].sess] = "open"

(***************************************************************************)
(* Properties of the classifier's error families.                          *)
(***************************************************************************)
\* the family base class of a status of the table
FamilyOf(status) ==
    CASE status = 401 -> "UnauthorizedError"
      [] status = 403 -> "ForbiddenError"
      [] status = 404 -> "NotFoundError"
      [] status = 429 -> "TooManyRequestsError"
      [] status = 500 -> "InternalErrorError"

Families == {FamilyOf(st) : st \in {401, 403, 404, 429, 500}}
            \cup {"UnhandledResponseError"}

\* C14: a response with status 401, 403, 404 or 429 and an error envelope,
\* whatever its code and message, raises an error that is an instance of
\* that status's family base class (UnauthorizedError, ForbiddenError,
\* NotFoundError, TooManyRequestsError) and of no other family.
C14_FamilyByStatus ==
    ( /\ cl_out # None
      /\ cl_resp.status \in {401, 403, 404, 429}
      /\ HasEnvelope(cl_resp.body) )
        => /\ IsInstance(cl_out, FamilyOf(cl_resp.status))
           /\ IsInstance(cl_out, "ResponseError")
           /\ \A f \in Families \ {FamilyOf(cl_resp.status)} :
                 ~IsInstance(cl_out, f)

\* a rejected access key: 401 with the remote's code and message for it
C14_Witness ==
    /\ cl_resp.status = 401
    /\ HasEnvelope(cl_resp.body)
    /\ cl_resp.body.error.code = "invalid_access_key"
    /\ cl_resp.body.error.message = "You have not supplied a valid API Access Key."
    /\ IsInstance(cl_out, "UnauthorizedError")

(***************************************************************************)
(* Properties of the single-date query at BASIC and above.                 *)
(***************************************************************************)
\* a call that made the date-scoped request and was answered 200
DateAnswered200(c) ==
    c.endpoint = "date" /\ c.answered = 1 /\ c.status = http_code_ok

\* C15 as stated: a date-scoped query answered 200 logs the anomaly exactly
\* when the number of returned rows differs from the number of requested
\* symbols, so that k symbols answered with k rows log nothing.
C15_AnomalyIffRowsDifferFromSymbols ==
    \A t \in DOMAIN calls :
        DateAnswered200(calls[t])
            => (calls[t].anomaly <=> Len(calls[t].body.data) # calls[t].nsymbols)

\* C16: a date-scoped query answered 200 never fails on the number of
\* rows: with no row, fewer rows than symbols, as many or more, each of
\* them deserializing, get_eod raises nothing and returns one record per
\* row of the body, in the body's order.
C16_RowCountNeverFails ==
    \A t \in DOMAIN calls :
        (DateAnswered200(calls[t]) /\ first_failing(calls[t].body.data) = 0)
            => /\ Returned(calls[t])
               /\ Len(calls[t].result) = Len(calls[t].body.data)
               /\ \A i \in 1..Len(calls[t].body.data) :
                     calls[t].result[i] = deserialize_eod(calls[t].body.data[i])

\* one symbol asked for, two rows returned
C16_Witness ==
    \E t \in DOMAIN calls :
        /\ DateAnswered200(calls[t])
        /\ calls[t].nsymbols = 1
        /\ calls[t].anomaly
        /\ calls[t].result = <<deserialize_eod(Row1), deserialize_eod(Row2)>>

(***************************************************************************)
(* Properties of the date conversions.                                     *)
(***************************************************************************)
\* the fields of a row that _deserialize_eod copies
CopiedFields == {"open", "high", "low", "close", "volume", "split_factor",
                 "dividend", "symbol", "exchange"}

\* C17 as stated: for every calendar date d, deserializing a row whose date
\* is _format_date(d), alone or followed by a time of day, gives a record
\* whose date is d, and every other field of the record is the row's.
C17_DateRoundTrip ==
    rt_eod # <<>>
        => /\ rt_eod[1].date = rt_date
           /\ \A f \in CopiedFields : rt_eod[1][f] = rt_row[1][f]

(***************************************************************************)
(* Properties of a query's failure.                                        *)
(***************************************************************************)
\* C18: when the k-th response of a call is not a 200, the call has ended
\* there: no request was issued after it (k requests in all, one for the
\* date-scoped query), the error the classifier gives for that response was
\* raised, and no row is returned, the rows of the pages 1..k-1 included.
C18_NoRetryNoPartialResult ==
    \A t \in DOMAIN calls :
        (calls[t].answered > 0 /\ calls[t].status # http_code_ok)
            => /\ calls[t].pc = "done"
               /\ calls[t].reqs = calls[t].answered
               /\ calls[t].endpoint = "date" => calls[t].reqs = 1
               /\ calls[t].err = handle_if_error(calls[t].status, calls[t].body)
               /\ calls[t].err # "ok"
               /\ calls[t].result = <<>>

\* the second page of a free-plan get_eod is rejected: a page of rows was
\* received and eight requests of the budget are left
C18_Witness ==
    \E t \in DOMAIN calls :
        /\ calls[t].op = "get_eod"
        /\ calls[t].endpoint = "range"
        /\ calls[t].answered = 2
        /\ calls[t].reqs = 2
        /\ calls[t].max_requests = DefaultMaxRequests
        /\ calls[t].status = 401
        /\ calls[t].yielded # <<>>
        /\ calls[t].err = "UnauthorizedError"
        /\ calls[t].result = <<>>

(***************************************************************************)
(* Properties of the classifier's inputs.                                  *)
(***************************************************************************)
\* the body with another message in its error envelope
WithMessage(body, message) == [body EXCEPT !.error.message = message]

\* C19 as stated: the classification depends on the status and on the
\* envelope's code only: the response classified and every response of the
\* same status and code with another message are classified the same.
C19_MessageIrrelevant ==
    (cl_out # None /\ HasEnvelope(cl_resp.body))
        => \A m \in ErrorMessages :
              handle_if_error(cl_resp.status, WithMessage(cl_resp.body, m))
              = cl_out

\* C20: a response whose status is one of the table (401, 403, 404, 429,
\* 500) and whose body has no error key raises the protocol-violation
\* RuntimeError: it is no ResponseError, and in particular not the default
\* kind of that status, the sub-table never being consulted.
C20_RecognizedStatusNoEnvelope ==
    ( /\ cl_out # None
      /\ cl_resp.status \in {401, 403, 404, 429, 500}
      /\ ~HasEnvelope(cl_resp.body) )
        => /\ cl_out = "RuntimeError"
           /\ ~IsInstance(cl_out, "ResponseError")
           /\ cl_out # FamilyOf(cl_resp.status)

\* status 500 with a body of rows and no error key
C20_Witness ==
    /\ cl_resp.status = 500
    /\ ~HasEnvelope(cl_resp.body)
    /\ cl_resp.body.data # <<>>
    /\ cl_out = "RuntimeError"

(***************************************************************************)
(* Properties of the page requests of one ranged call.                     *)
(***************************************************************************)
\* C21: all page requests of one ranged call are the same request: the
\* client's base URL with access_key, the comma-joined symbols, date_from,
\* date_to, limit = "1000", and exchange exactly when a filter was given;
\* no page's pagination metadata has changed a parameter.
C21_SamePageRequest ==
    \A t \in DOMAIN calls :
        (calls[t].endpoint = "range" /\ calls[t].reqs > 0)
            => \E q \in calls[t].sent :
                  /\ calls[t].sent = {q}
                  /\ q.url = <<base_url>>
                  /\ DOMAIN q.params
                     = {"access_key", "symbols", "date_from", "date_to", "limit"}
                       \cup (IF calls[t].args.exchange_filter = None THEN {}
                             ELSE {"exchange"})
                  /\ q.params["symbols"] = Join(calls[t].args.symbols)
                  /\ q.params["date_from"]
                     = format_date(calls[t].args.date_range[1])
                  /\ q.params["date_to"]
                     = format_date(calls[t].args.date_range[2])
                  /\ q.params["limit"] = <<"1", "0", "0", "0">>
                  /\ "exchange" \in DOMAIN q.params
                        => q.params["exchange"] = calls[t].args.exchange_filter

\* a filtered ranged call whose first page announced more rows and whose
\* second page was its last
C21_Witness ==
    \E t \in DOMAIN calls :
        /\ calls[t].op = "get_eod_range"
        /\ calls[t].args.exchange_filter = "XNAS"
        /\ calls[t].args.symbols = <<"AMZN", "MSFT">>
        /\ calls[t].reqs = 2
        /\ calls[t].answered = 2
        /\ calls[t].body.pagination.total = 0
        /\ Returned(calls[t])
        /\ Len(calls[t].result) = 1

(***************************************************************************)
(* Properties of the release of the transport sessions.                    *)
(***************************************************************************)
\* C22 as stated: once every entered scope of the client has been exited,
\* every session that __aenter__ created is closed, whatever enters,
\* queries and exits came before, entering again before an exit included.
C22_AllSessionsClosedOutsideScope ==
    depth = 0 => \A i \in 1..Len(sessions) : sessions[i] = "closed"

(***************************************************************************)
(* Properties of concurrent queries on one client.                         *)
(***************************************************************************)
\* C23 as stated: with several query calls in flight on one client that
\* was entered once and not exited, every call that awaits a response holds
\* an open session: the completion of another call has not closed it.
C23_InFlightSessionOpen ==
    \A t \in DOMAIN calls :
        (calls[t].pc = "get" /\ depth = 1 /\ Len(sessions) = 1)
            => sessions[calls[t].sess] = "open"

====
